---- MODULE Spec2Model ----
(***************************************************************************)
(* Model of twitter.thermos.base.ckpt.TaskCkptDispatcher: the dispatcher   *)
(* that folds checkpoint records (TaskRunnerCkpt) into a TaskRunnerState,  *)
(* its per-process run-state machine (update_task_state), its handler      *)
(* lists and their dispatch, would_update, and the replay driver           *)
(* from_file.                                                              *)
(*                                                                         *)
(* Python objects are mutated in place, so every operator that models a    *)
(* method returns the object as the call leaves it, also when the call     *)
(* raises: what was written before the raise stays written.                *)
(***************************************************************************)
EXTENDS Integers, Sequences, FiniteSets, TLC

VARIABLES
  self,     \* the TaskCkptDispatcher: its handler lists
  state,    \* the TaskRunnerState the caller folds the records into
  last,     \* the call of update_runner_state that has just returned or raised
  ncalls,   \* calls made so far (counted where the number of calls is bounded)
  log,      \* from_file: the records read so far
  rpc,      \* from_file: "idle", "reading" or "done"
  rret      \* from_file: how it ended

vars == <<self, state, last, ncalls, log, rpc, rret>>

----------------------------------------------------------------------------
(* Bounds of the model *)

\* largest sequence number a record carries
MaxSeq == 3
\* most calls of update_runner_state where every kind of record is tried
MaxCalls == 3
\* longest log the replay driver reads
MaxLog == 2
\* most handlers registered with one dispatcher
MaxHandlers == 3

----------------------------------------------------------------------------
(* Values *)

\* Python's None in an integer field (thrift fields default to None)
None == -1
\* Python's None in a field that holds a name or an enum
NoneStr == "None"

ProcessNames == {"p"}
\* the process field of a ProcessState may be unset
ProcessKeys == ProcessNames \cup {NoneStr}

RunStates == {"WAITING", "FORKED", "RUNNING", "FINISHED", "FAILED", "KILLED", "LOST"}
\* an enum value outside ProcessRunState
UnknownRunState == "UNKNOWN"

TERMINAL_STATES == {"FINISHED", "FAILED", "KILLED", "LOST"}

Headers == {"h1", "h2"}
PortNames == {"http"}
Ports == 1..2
TaskStates == {"ACTIVE", "SUCCESS", "FAILED"}

SeqVals == {None} \cup (0..MaxSeq)
\* The values of the time, pid and return-code fields are copied and never
\* inspected: two of them tell a kept field from an overwritten one.
Values == {1, 2}

\* the state-specific fields of a ProcessState
StateFields == {"fork_time", "runner_pid", "start_time", "pid", "stop_time", "return_code"}

\* ProcessState(seq, process, run_state): every other field unset
ProcessState(seq, process, run_state) ==
  [seq |-> seq, process |-> process, run_state |-> run_state,
   fork_time |-> None, runner_pid |-> None, start_time |-> None,
   pid |-> None, stop_time |-> None, return_code |-> None]

\* ProcessHistory(process, runs, state)
ProcessHistory(process, runs, st) ==
  [process |-> process, runs |-> runs, state |-> st]

\* TaskRunnerState(processes = {}): header, ports and state unset.  ports is
\* kept as a mapping; None and {} are one value here because
\* update_runner_state turns None into {} before its only read of it.
TaskRunnerState ==
  [header |-> NoneStr, ports |-> <<>>, state |-> NoneStr, processes |-> <<>>]

\* the unset value of a ProcessState field
FieldNone(field) ==
  IF field \in {"process", "run_state"} THEN NoneStr ELSE None

----------------------------------------------------------------------------
(* Checkpoint records: TaskRunnerCkpt with exactly one member set, or none *)

NoProcessState == ProcessState(None, NoneStr, NoneStr)

Ckpt(kind) ==
  [kind |-> kind, runner_header |-> NoneStr, port_name |-> NoneStr, port |-> None,
   state |-> NoneStr, process |-> NoneStr, process_state |-> NoProcessState]

HeaderCkpts == {[Ckpt("runner_header") EXCEPT !.runner_header = h] : h \in Headers}

PortCkpts ==
  {[Ckpt("allocated_port") EXCEPT !.port_name = n, !.port = p] :
     n \in PortNames, p \in Ports}

StateUpdateCkpts == {[Ckpt("state_update") EXCEPT !.state = s] : s \in TaskStates}

HistoryCkpts ==
  {[Ckpt("history_state_update") EXCEPT !.process = p, !.state = s] :
     p \in ProcessNames, s \in TaskStates}

\* Process states as a record can carry them, for processes named in keys:
\* any sequence (or none), any run state (or none, or one outside the enum),
\* and each field that update_task_state reads for that run state either
\* set (to the record's value v) or missing.
ProcessStateUpdates(keys) ==
  LET base(rs) == {ProcessState(s, p, rs) : s \in SeqVals, p \in keys}
      with2(S, f, g) ==
        {[u EXCEPT ![f] = IF a THEN v ELSE None, ![g] = IF b THEN v ELSE None] :
            u \in S, a \in BOOLEAN, b \in BOOLEAN, v \in Values}
      with1(S, f) ==
        {[u EXCEPT ![f] = IF a THEN v ELSE None] : u \in S, a \in BOOLEAN, v \in Values}
  IN  base(NoneStr) \cup base("WAITING") \cup base("LOST") \cup base(UnknownRunState)
      \cup with2(base("FORKED"), "fork_time", "runner_pid")
      \cup with2(base("RUNNING"), "start_time", "pid")
      \cup with2(base("FINISHED"), "stop_time", "return_code")
      \cup with2(base("FAILED"), "stop_time", "return_code")
      \cup with1(base("KILLED"), "stop_time")

ProcessCkpts(keys) ==
  {[Ckpt("process_state") EXCEPT !.process_state = u] : u \in ProcessStateUpdates(keys)}

\* the process_state records of the named processes, and those of every key
NamedProcessCkpts == ProcessCkpts(ProcessNames)
AllProcessCkpts == ProcessCkpts(ProcessKeys)

EmptyCkpt == Ckpt("empty")

----------------------------------------------------------------------------
(* Field checks and copies *)

\* check_nonempty_fields: TRUE when it returns, FALSE when it raises
\* ErrorRecoveringState (a field of the list is None)
check_nonempty_fields(process_state, fields) ==
  \A i \in 1..Len(fields) : process_state[fields[i]] # FieldNone(fields[i])

\* check_empty_fields: TRUE when it returns, FALSE when it raises
\* ErrorRecoveringState (a field of the list is already set)
check_empty_fields(process_state, fields) ==
  \A i \in 1..Len(fields) : process_state[fields[i]] = FieldNone(fields[i])

\* the assignment loop of copy_fields / check_and_copy_fields
RECURSIVE CopyLoop(_, _, _)
CopyLoop(process_state, process_state_update, fields) ==
  IF fields = <<>> THEN process_state
  ELSE CopyLoop([process_state EXCEPT ![Head(fields)] = process_state_update[Head(fields)]],
                process_state_update, Tail(fields))

\* copy_fields with the check after the loop: the fields are copied before a
\* missing one is noticed
copy_fields_before_check(process_state, process_state_update, fields) ==
  [raised |-> ~check_nonempty_fields(process_state_update, fields),
   process_state |-> CopyLoop(process_state, process_state_update, fields)]

\* copy_fields: checks the update's fields, then copies them; nothing is
\* copied when the check raises
copy_fields(process_state, process_state_update, fields) ==
  IF check_nonempty_fields(process_state_update, fields)
  THEN [raised |-> FALSE,
        process_state |-> CopyLoop(process_state, process_state_update, fields)]
  ELSE [raised |-> TRUE, process_state |-> process_state]

\* check_and_copy_fields: as copy_fields, after checking that the target's
\* fields are empty (no caller in ckpt.py)
check_and_copy_fields(process_state, process_state_update, fields) ==
  IF check_empty_fields(process_state, fields)
  THEN copy_fields(process_state, process_state_update, fields)
  ELSE [raised |-> TRUE, process_state |-> process_state]

\* is_terminal with LOST left out of TERMINAL_STATES
is_terminal_without_lost(process_state_update) ==
  process_state_update.run_state \in TERMINAL_STATES \ {"LOST"}

\* is_terminal with RUNNING counted among the terminal states
is_terminal_with_running(process_state_update) ==
  process_state_update.run_state \in TERMINAL_STATES \cup {"RUNNING"}

\* is_terminal
is_terminal(process_state_update) ==
  process_state_update.run_state \in TERMINAL_STATES

\* required_fields of each branch of update_task_state
required_fields(run_state) ==
  CASE run_state = "WAITING"  -> <<"seq", "run_state", "process">>
    [] run_state = "FORKED"   -> <<"seq", "run_state", "fork_time", "runner_pid">>
    [] run_state = "RUNNING"  -> <<"seq", "run_state", "start_time", "pid">>
    [] run_state = "FINISHED" -> <<"seq", "run_state", "stop_time", "return_code">>
    [] run_state = "FAILED"   -> <<"seq", "run_state", "stop_time", "return_code">>
    [] run_state = "KILLED"   -> <<"seq", "run_state", "stop_time">>
    [] run_state = "LOST"     -> <<"seq", "run_state">>

\* the run states update_task_state accepts as the current one, per requested
\* run state; WAITING is copied without a look at the current run state
allowed_from(run_state) ==
  CASE run_state = "WAITING"  -> RunStates \cup {NoneStr}
    [] run_state = "FORKED"   -> {"WAITING"}
    [] run_state = "RUNNING"  -> {"FORKED"}
    [] run_state = "FINISHED" -> {"RUNNING"}
    [] run_state = "FAILED"   -> {"RUNNING"}
    [] run_state = "KILLED"   -> {"FORKED", "RUNNING"}
    [] run_state = "LOST"     -> {"FORKED", "RUNNING"}

----------------------------------------------------------------------------
(* Handler dispatch: the calls made, in order *)

\* _run_state_dispatch(state, process_update): one dispatch to the universal
\* handlers and to the handlers of `state`
run_state_dispatch(run_state, process_update) ==
  <<[run_state |-> run_state, update |-> process_update]>>

\* _run_port_dispatch(name, port)
run_port_dispatch(name, port) == <<[port_name |-> name, port |-> port]>>

\* __init__: no handler registered
Dispatcher ==
  [state_handlers |-> <<>>, universal_handlers |-> <<>>, port_handlers |-> <<>>]

\* register_state_handler(run_state, function)
register_state_handler(dispatcher, run_state, function) ==
  LET handlers == IF run_state \in DOMAIN dispatcher.state_handlers
                  THEN dispatcher.state_handlers[run_state] ELSE <<>>
  IN  [dispatcher EXCEPT
         !.state_handlers =
            (run_state :> Append(handlers, function))
              @@ [k \in DOMAIN dispatcher.state_handlers \ {run_state} |->
                    dispatcher.state_handlers[k]]]

\* register_port_handler(function)
register_port_handler(dispatcher, function) ==
  [dispatcher EXCEPT !.port_handlers = Append(@, function)]

\* register_universal_handler(function)
register_universal_handler(dispatcher, function) ==
  [dispatcher EXCEPT !.universal_handlers = Append(@, function)]

\* one call of a handler
HandlerCall(handler, args) == [handler |-> handler, args |-> args]

CallEach(handlers, args) ==
  [i \in 1..Len(handlers) |-> HandlerCall(handlers[i], args)]

\* the loops of _run_state_dispatch with the handlers of the run state
\* called before the universal ones
state_handlers_first(dispatcher, d) ==
  LET handlers == IF d.run_state \in DOMAIN dispatcher.state_handlers
                  THEN dispatcher.state_handlers[d.run_state] ELSE <<>>
  IN  CallEach(handlers, <<d.update>>)
        \o CallEach(dispatcher.universal_handlers, <<d.update>>)

\* the loops of _run_state_dispatch: every universal handler, then every
\* handler of self._state_handlers.get(state, [])
state_handler_calls(dispatcher, d) ==
  LET handlers == IF d.run_state \in DOMAIN dispatcher.state_handlers
                  THEN dispatcher.state_handlers[d.run_state] ELSE <<>>
  IN  CallEach(dispatcher.universal_handlers, <<d.update>>)
        \o CallEach(handlers, <<d.update>>)

\* the loop of _run_port_dispatch
port_handler_calls(dispatcher, d) ==
  CallEach(dispatcher.port_handlers, <<d.port_name, d.port>>)

\* the handler calls one call of update_runner_state makes: it dispatches at
\* most once, to the port handlers or to the process handlers
handler_calls(dispatcher, dispatch, port_dispatch) ==
  IF dispatch # <<>> THEN state_handler_calls(dispatcher, dispatch[1])
  ELSE IF port_dispatch # <<>> THEN port_handler_calls(dispatcher, port_dispatch[1])
  ELSE <<>>

----------------------------------------------------------------------------
(* update_task_state: the run-state machine of one run *)

Outcome(ret, process_state, dispatch) ==
  [ret |-> ret, process_state |-> process_state, dispatch |-> dispatch]

\* the sequence policy with < for <=: an update that repeats the current
\* sequence passes
seq_policy_strict(process_state, process_state_update, recovery) ==
  IF process_state_update.seq = None THEN "InvalidSequenceNumber"
  ELSE IF process_state.seq > 0 /\ process_state_update.seq < process_state.seq
       THEN (IF recovery THEN "False" ELSE "InvalidSequenceNumber")
       ELSE "pass"

\* the sequence policy without the comparison with the current sequence
seq_policy_unordered(process_state, process_state_update, recovery) ==
  IF process_state_update.seq = None THEN "InvalidSequenceNumber" ELSE "pass"

\* the sequence policy: "pass", or the way the call ends
seq_policy(process_state, process_state_update, recovery) ==
  IF process_state_update.seq = None THEN "InvalidSequenceNumber"
  ELSE IF process_state.seq > 0 /\ process_state_update.seq <= process_state.seq
       THEN (IF recovery THEN "False" ELSE "InvalidSequenceNumber")
       ELSE "pass"

update_task_state(process_state, process_state_update, recovery) ==
  LET sp == seq_policy(process_state, process_state_update, recovery)
      rs == process_state_update.run_state
  IN
  IF sp # "pass" THEN Outcome(sp, process_state, <<>>)
  ELSE IF rs # NoneStr /\ process_state.run_state = rs
  THEN Outcome("InvalidStateTransition", process_state, <<>>)
  ELSE IF rs = NoneStr
  THEN Outcome("True", process_state, run_state_dispatch(rs, process_state_update))
  ELSE IF rs \notin RunStates
  THEN Outcome("ErrorRecoveringState", process_state, <<>>)
  ELSE IF process_state.run_state \notin allowed_from(rs)
  THEN Outcome("InvalidStateTransition", process_state, <<>>)
  ELSE LET c == copy_fields(process_state, process_state_update, required_fields(rs))
       IN  IF c.raised
           THEN Outcome("ErrorRecoveringState", c.process_state, <<>>)
           ELSE Outcome("True", c.process_state,
                        run_state_dispatch(rs, process_state_update))

----------------------------------------------------------------------------
(* update_runner_state: the dispatcher *)

\* the exceptions derived from TaskCkptDispatcher.Error
DispatcherErrors ==
  {"ErrorRecoveringState", "InvalidStateTransition", "InvalidSequenceNumber"}

\* how a call of update_runner_state reaches update_task_state: not at all
\* ("none"), with the caller's process_state on the tail run ("supplied"),
\* or with the update transition_to_waiting forged, on a new run ("forged")
NoMachine == "none"

\* what one call leaves behind: how it ended ("True", "False" or the name of
\* the exception raised), the TaskRunnerState as the call left it, the
\* handler dispatches it made, and what it handed to update_task_state
Result(ret, st, dispatch, port_dispatch, machine) ==
  [ret |-> ret, state |-> st, dispatch |-> dispatch, port_dispatch |-> port_dispatch,
   machine |-> machine]

Last(xs) == xs[Len(xs)]

\* transition_to_waiting that puts the new run in the place of the last one
\* instead of appending it
transition_to_waiting_in_place(process, process_history, seq) ==
  LET process_state == ProcessState(seq, process, NoneStr)
      n == Len(process_history.runs)
  IN  [process_state |-> process_state,
       process_update |-> [process_state EXCEPT !.run_state = "WAITING"],
       process_history |->
         [process_history EXCEPT
            !.runs = IF n = 0 THEN <<process_state>>
                     ELSE [process_history.runs EXCEPT ![n] = process_state]]]

\* transition_to_waiting that puts the new run at the head of the run list
transition_to_waiting_at_head(process, process_history, seq) ==
  LET process_state == ProcessState(seq, process, NoneStr)
  IN  [process_state |-> process_state,
       process_update |-> [process_state EXCEPT !.run_state = "WAITING"],
       process_history |->
         [process_history EXCEPT !.runs = <<process_state>> \o process_history.runs]]

\* transition_to_waiting(process, process_history, seq): appends a run with
\* no run state and hands back the WAITING update forged for it
transition_to_waiting(process, process_history, seq) ==
  LET process_state == ProcessState(seq, process, NoneStr)
  IN  [process_state |-> process_state,
       process_update |-> [process_state EXCEPT !.run_state = "WAITING"],
       process_history |->
         [process_history EXCEPT !.runs = Append(process_history.runs, process_state)]]

\* the end of case 5: update_task_state on the last run of process_history,
\* which is the object process_state
run_state_machine(st, process, process_history, process_update, recovery, machine) ==
  LET n == Len(process_history.runs)
      process_state == process_history.runs[n]
      r == update_task_state(process_state, process_update, recovery)
      h == [process_history EXCEPT !.runs[n] = r.process_state]
  IN  Result(r.ret, [st EXCEPT !.processes[process] = h], r.dispatch, <<>>,
             machine)

\* case 1 with a header equal to the stored one let through
update_header_same_ok(st, runner_ckpt) ==
  IF st.header # NoneStr /\ st.header # runner_ckpt.runner_header
  THEN Result("ErrorRecoveringState", st, <<>>, <<>>, NoMachine)
  ELSE Result("True", [st EXCEPT !.header = runner_ckpt.runner_header],
              <<>>, <<>>, NoMachine)

\* case 1: runner_header
update_header(st, runner_ckpt) ==
  IF st.header # NoneStr
  THEN Result("ErrorRecoveringState", st, <<>>, <<>>, NoMachine)
  ELSE Result("True", [st EXCEPT !.header = runner_ckpt.runner_header],
              <<>>, <<>>, NoMachine)

\* case 2 with a conflicting port taking the place of the bound one
update_port_rebinds(st, runner_ckpt) ==
  LET port == runner_ckpt.port
      port_name == runner_ckpt.port_name
  IN  IF port_name \in DOMAIN st.ports /\ port = st.ports[port_name]
      THEN Result("False", st, <<>>, <<>>, NoMachine)
      ELSE Result("True",
                  [st EXCEPT !.ports = (port_name :> port) @@
                     [n \in DOMAIN st.ports \ {port_name} |-> st.ports[n]]],
                  <<>>, run_port_dispatch(port_name, port), NoMachine)

\* case 2 with the port handlers called again for a port that is bound
update_port_redispatch(st, runner_ckpt) ==
  LET port == runner_ckpt.port
      port_name == runner_ckpt.port_name
  IN  IF port_name \in DOMAIN st.ports
      THEN IF port # st.ports[port_name]
           THEN Result("ErrorRecoveringState", st, <<>>, <<>>, NoMachine)
           ELSE Result("False", st, <<>>, run_port_dispatch(port_name, port), NoMachine)
      ELSE Result("True", [st EXCEPT !.ports = (port_name :> port) @@ st.ports],
                  <<>>, run_port_dispatch(port_name, port), NoMachine)

\* case 2: allocated_port
update_port(st, runner_ckpt) ==
  LET port == runner_ckpt.port
      port_name == runner_ckpt.port_name
  IN  IF port_name \in DOMAIN st.ports
      THEN IF port # st.ports[port_name]
           THEN Result("ErrorRecoveringState", st, <<>>, <<>>, NoMachine)
           ELSE Result("False", st, <<>>, <<>>, NoMachine)
      ELSE Result("True", [st EXCEPT !.ports = (port_name :> port) @@ st.ports],
                  <<>>, run_port_dispatch(port_name, port), NoMachine)

\* case 3: state_update
update_state(st, runner_ckpt) ==
  IF st.state # runner_ckpt.state
  THEN Result("True", [st EXCEPT !.state = runner_ckpt.state], <<>>, <<>>, NoMachine)
  ELSE Result("False", st, <<>>, <<>>, NoMachine)

\* case 4: history_state_update; state.processes[process_name] on a name
\* that is no key raises KeyError
update_history_state(st, runner_ckpt) ==
  LET process_name == runner_ckpt.process
      state_change == runner_ckpt.state
  IN  IF process_name \notin DOMAIN st.processes
      THEN Result("KeyError", st, <<>>, <<>>, NoMachine)
      ELSE IF st.processes[process_name].state # state_change
      THEN Result("True", [st EXCEPT !.processes[process_name].state = state_change],
                  <<>>, <<>>, NoMachine)
      ELSE Result("False", st, <<>>, <<>>, NoMachine)

\* case 5: process_state
update_process_state(st, runner_ckpt, recovery) ==
  LET process_update == runner_ckpt.process_state
      process == process_update.process
  IN
  IF process \notin DOMAIN st.processes
  THEN \* never seen: a new history, run 0, and the forged WAITING update
       \* takes the place of the caller's
       LET t == transition_to_waiting(process,
                                      ProcessHistory(process, <<>>, "ACTIVE"), 0)
           st1 == [st EXCEPT !.processes = (process :> t.process_history) @@ st.processes]
       IN  run_state_machine(st1, process, t.process_history, t.process_update,
                             recovery, "forged")
  ELSE LET process_history == st.processes[process]
           process_state == Last(process_history.runs)
       IN  IF is_terminal(process_state)
           THEN IF is_terminal(process_update)
                THEN Result("ErrorRecoveringState", st, <<>>, <<>>, NoMachine)
                ELSE LET t == transition_to_waiting(process, process_history,
                                                    process_state.seq)
                         u == [t.process_update EXCEPT !.seq = t.process_update.seq + 1]
                         st1 == [st EXCEPT !.processes[process] = t.process_history]
                     IN  run_state_machine(st1, process, t.process_history, u,
                                           recovery, "forged")
           ELSE run_state_machine(st, process, process_history, process_update,
                                  recovery, "supplied")

update_runner_state(st, runner_ckpt, recovery) ==
  CASE runner_ckpt.kind = "runner_header" -> update_header(st, runner_ckpt)
    [] runner_ckpt.kind = "allocated_port" -> update_port(st, runner_ckpt)
    [] runner_ckpt.kind = "state_update" -> update_state(st, runner_ckpt)
    [] runner_ckpt.kind = "history_state_update" -> update_history_state(st, runner_ckpt)
    [] runner_ckpt.kind = "process_state" ->
         update_process_state(st, runner_ckpt, recovery)
    [] runner_ckpt.kind = "empty" -> Result("False", st, <<>>, <<>>, NoMachine)

\* would_update(state, runner_ckpt): reads, and writes nothing.  The set of
\* the ways the call can end.  task_state.seq < None, for a record without
\* a sequence number, depends on the interpreter: Python 2 orders None
\* below every integer (False), Python 3 raises TypeError.
would_update(st, runner_ckpt) ==
  LET process_update == runner_ckpt.process_state
      process == process_update.process
  IN  IF runner_ckpt.kind # "process_state" THEN {"False"}
      ELSE IF process \notin DOMAIN st.processes THEN {"True"}
      ELSE LET task_process == st.processes[process]
               task_state == Last(task_process.runs)
           IN  IF process_update.seq = None THEN {"False", "TypeError"}
               ELSE IF task_state.seq < process_update.seq
               THEN {"True"} ELSE {"False"}

----------------------------------------------------------------------------
(* The dispatcher driven record by record *)

\* the tail run of a process the state knows
TailRun(st, process) == Last(st.processes[process].runs)

\* The records the model lets through: a record that starts a new run is
\* tried only while the new run's sequence number stays within MaxSeq.
WithinBounds(st, runner_ckpt) ==
  runner_ckpt.kind = "process_state" =>
    LET process == runner_ckpt.process_state.process
    IN  (process \in DOMAIN st.processes /\ is_terminal(TailRun(st, process)))
          => TailRun(st, process).seq < MaxSeq

NoCall ==
  [op |-> "none", ckpt |-> EmptyCkpt, recovery |-> FALSE, pre |-> TaskRunnerState,
   ret |-> "none", dispatch |-> <<>>, port_dispatch |-> <<>>, machine |-> NoMachine,
   invoked |-> <<>>]

Call(st, runner_ckpt, recovery) ==
  LET r == update_runner_state(st, runner_ckpt, recovery)
  IN  [op |-> "update_runner_state", ckpt |-> runner_ckpt, recovery |-> recovery,
       pre |-> st, ret |-> r.ret, dispatch |-> r.dispatch,
       port_dispatch |-> r.port_dispatch, machine |-> r.machine,
       invoked |-> handler_calls(self, r.dispatch, r.port_dispatch)]

Init ==
  /\ self = Dispatcher
  /\ state = TaskRunnerState
  /\ last = NoCall
  /\ ncalls = 0
  /\ log = <<>>
  /\ rpc = "idle"
  /\ rret = "pending"

\* the owner of the state has taken the outcome of the call before
Idle == rpc = "idle" /\ last.op = "none"

\* one call of update_runner_state(state, runner_ckpt, recovery)
Apply(runner_ckpt, recovery) ==
  /\ WithinBounds(state, runner_ckpt)
  /\ state' = update_runner_state(state, runner_ckpt, recovery).state
  /\ last' = Call(state, runner_ckpt, recovery)
  /\ UNCHANGED <<self, log, rpc, rret>>

\* the caller takes the outcome of the call (the value returned or the
\* exception); the dispatcher keeps nothing of it
Return ==
  /\ rpc = "idle"
  /\ last.op # "none"
  /\ last' = NoCall
  /\ UNCHANGED <<self, state, ncalls, log, rpc, rret>>

(* Spec: the run-state machine in depth, on process_state records of the
   named processes, in both recovery modes *)

ApplyProcessState ==
  /\ Idle
  /\ \E c \in NamedProcessCkpts, recovery \in BOOLEAN : Apply(c, recovery)
  /\ UNCHANGED ncalls

Next ==
  \/ ApplyProcessState
  \/ Return

Spec == Init /\ [][Next]_vars

(* SpecAny: up to MaxCalls calls with every kind of record, a process_state
   without a process name among them *)

Counted == Idle /\ ncalls < MaxCalls /\ ncalls' = ncalls + 1

CallHeader ==
  /\ Counted
  /\ \E c \in HeaderCkpts, recovery \in BOOLEAN : Apply(c, recovery)

CallPort ==
  /\ Counted
  /\ \E c \in PortCkpts, recovery \in BOOLEAN : Apply(c, recovery)

CallStateUpdate ==
  /\ Counted
  /\ \E c \in StateUpdateCkpts, recovery \in BOOLEAN : Apply(c, recovery)

CallHistoryUpdate ==
  /\ Counted
  /\ \E c \in HistoryCkpts, recovery \in BOOLEAN : Apply(c, recovery)

CallProcessState ==
  /\ Counted
  /\ \E c \in AllProcessCkpts, recovery \in BOOLEAN : Apply(c, recovery)

CallEmpty ==
  /\ Counted
  /\ \E recovery \in BOOLEAN : Apply(EmptyCkpt, recovery)

NextAny ==
  \/ CallHeader
  \/ CallPort
  \/ CallStateUpdate
  \/ CallHistoryUpdate
  \/ CallProcessState
  \/ CallEmpty
  \/ Return

SpecAny == Init /\ [][NextAny]_vars

(* SpecApi: one dispatcher with handlers: handlers are registered, and port
   and process_state records are asked about (would_update) and applied, up
   to MaxCalls of them.  The process_state records are those whose set
   fields are the ones their run state requires. *)

\* the run states handlers are registered for
HandledRunStates == {"WAITING", "FORKED"}

\* the handlers registered so far
Registered ==
  LET handlers(run_state) == IF run_state \in DOMAIN self.state_handlers
                             THEN self.state_handlers[run_state] ELSE <<>>
      RECURSIVE Sum(_)
      Sum(S) == IF S = {} THEN 0
                ELSE LET k == CHOOSE k \in S : TRUE
                     IN  Len(handlers(k)) + Sum(S \ {k})
  IN  Len(self.universal_handlers) + Len(self.port_handlers)
        + Sum(HandledRunStates)

\* Every registration brings a function of its own: it is named by the list
\* it is appended to and its rank there.
NewFunction(list, handlers) == <<list, Len(handlers) + 1>>

CanRegister == Idle /\ Registered < MaxHandlers

RegisterStateHandler ==
  /\ CanRegister
  /\ \E run_state \in HandledRunStates :
       LET handlers == IF run_state \in DOMAIN self.state_handlers
                       THEN self.state_handlers[run_state] ELSE <<>>
       IN  self' = register_state_handler(self, run_state,
                                          NewFunction(run_state, handlers))
  /\ UNCHANGED <<state, last, ncalls, log, rpc, rret>>

RegisterUniversalHandler ==
  /\ CanRegister
  /\ self' = register_universal_handler(
       self, NewFunction("universal", self.universal_handlers))
  /\ UNCHANGED <<state, last, ncalls, log, rpc, rret>>

RegisterPortHandler ==
  /\ CanRegister
  /\ self' = register_port_handler(self, NewFunction("port", self.port_handlers))
  /\ UNCHANGED <<state, last, ncalls, log, rpc, rret>>

CompleteProcessCkpts ==
  {c \in NamedProcessCkpts :
     LET u == c.process_state
     IN  /\ \A f \in StateFields : u[f] \in {None, 1}
         /\ u.run_state \in RunStates =>
              \A i \in 1..Len(required_fields(u.run_state)) :
                 LET f == required_fields(u.run_state)[i]
                 IN  f = "seq" \/ u[f] # FieldNone(f)}

ApiCkpts == PortCkpts \cup CompleteProcessCkpts \cup {EmptyCkpt}

\* one call of would_update(state, runner_ckpt)
WouldUpdate ==
  /\ Idle
  /\ \E c \in ApiCkpts :
       \E ret \in would_update(state, c) :
         last' = [NoCall EXCEPT !.op = "would_update", !.ckpt = c, !.pre = state,
                                !.ret = ret]
  /\ UNCHANGED <<self, state, ncalls, log, rpc, rret>>

UpdateRunnerState ==
  /\ Counted
  /\ \E c \in ApiCkpts, recovery \in BOOLEAN : Apply(c, recovery)

NextApi ==
  \/ RegisterStateHandler
  \/ RegisterUniversalHandler
  \/ RegisterPortHandler
  \/ WouldUpdate
  \/ UpdateRunnerState
  \/ Return

SpecApi == Init /\ [][NextApi]_vars

----------------------------------------------------------------------------
(* from_file: the replay driver *)

AllCkpts ==
  HeaderCkpts \cup PortCkpts \cup StateUpdateCkpts \cup HistoryCkpts
    \cup AllProcessCkpts \cup {EmptyCkpt}

\* One turn of the loop of from_file: update_runner_state(state, process_update)
\* with recovery left at its default, False.  done = "no": the loop goes on;
\* "None": a TaskCkptDispatcher.Error was caught and None returned; any other
\* name: that exception leaves from_file.
read_record(st, process_update) ==
  LET r == update_runner_state(st, process_update, FALSE)
  IN  [state |-> r.state,
       done |-> IF r.ret \in {"True", "False"} THEN "no"
                ELSE IF r.ret \in DispatcherErrors THEN "None"
                ELSE r.ret]

\* from_file on a whole log: "state" and the state folded, or how it failed
RECURSIVE replay(_, _)
replay(st, records) ==
  IF records = <<>> THEN [ret |-> "state", state |-> st]
  ELSE LET r == read_record(st, Head(records))
       IN  IF r.done = "no" THEN replay(r.state, Tail(records))
           ELSE [ret |-> r.done, state |-> TaskRunnerState]

from_file(records) == replay(TaskRunnerState, records)

\* state = TaskRunnerState(processes = {}); the file is opened
Open ==
  /\ Idle
  /\ rpc' = "reading"
  /\ state' = TaskRunnerState
  /\ log' = <<>>
  /\ UNCHANGED <<self, last, ncalls, rret>>

\* the reader yields the next record of the file
ReadRecord ==
  /\ rpc = "reading"
  /\ Len(log) < MaxLog
  /\ \E c \in AllCkpts :
       /\ WithinBounds(state, c)
       /\ log' = Append(log, c)
       /\ last' = Call(state, c, FALSE)
       /\ LET r == read_record(state, c)
          IN  /\ state' = r.state
              /\ rpc' = IF r.done = "no" THEN "reading" ELSE "done"
              /\ rret' = IF r.done = "no" THEN rret ELSE r.done
  /\ UNCHANGED <<self, ncalls>>

\* the reader is exhausted: return state
EndOfFile ==
  /\ rpc = "reading"
  /\ rpc' = "done"
  /\ rret' = "state"
  /\ UNCHANGED <<self, state, last, ncalls, log>>

NextReplay ==
  \/ Open
  \/ ReadRecord
  \/ EndOfFile

SpecReplay == Init /\ [][NextReplay]_vars

----------------------------------------------------------------------------
(* Vocabulary of the properties *)

\* the terminal run states, as the specification lists them
Terminal == {"FINISHED", "FAILED", "KILLED", "LOST"}

\* the edges of the legal transition graph between run states of one run
LegalEdges ==
  {<<"WAITING", "FORKED">>, <<"FORKED", "RUNNING">>,
   <<"RUNNING", "FINISHED">>, <<"RUNNING", "FAILED">>,
   <<"FORKED", "KILLED">>, <<"RUNNING", "KILLED">>,
   <<"FORKED", "LOST">>, <<"RUNNING", "LOST">>}

\* the transition-specific required fields of the required-field table
SpecificFields(run_state) ==
  CASE run_state = "FORKED" -> {"fork_time", "runner_pid"}
    [] run_state = "RUNNING" -> {"start_time", "pid"}
    [] run_state \in {"FINISHED", "FAILED"} -> {"stop_time", "return_code"}
    [] run_state = "KILLED" -> {"stop_time"}
    [] OTHER -> {}

\* a call of update_runner_state has just ended: state is the state after
\* it, last.pre the state before it
Called == last.op = "update_runner_state"
\* ... on a process_state record
ProcessCall == Called /\ last.ckpt.kind = "process_state"
Upd == last.ckpt.process_state
Proc == Upd.process
KnownBefore == Proc \in DOMAIN last.pre.processes
PreRuns == last.pre.processes[Proc].runs
PostRuns == state.processes[Proc].runs
PreTail == Last(PreRuns)

\* the call raised one of the dispatcher's errors
Rejected == Called /\ last.ret \in DispatcherErrors

----------------------------------------------------------------------------
(* C1 *)

\* C1: a call of update_runner_state that raises ErrorRecoveringState,
\* InvalidStateTransition or InvalidSequenceNumber leaves the TaskRunnerState
\* exactly as it was before the call.
C1_RejectedLeavesStateUnmodified == Rejected => state = last.pre

----------------------------------------------------------------------------
(* C2 *)

\* C2: every change of a run's run state made by a call follows an edge of
\* the legal graph, and a run that appears starts in WAITING.
C2_RunStateFollowsLegalEdges ==
  (ProcessCall /\ Proc \in DOMAIN state.processes) =>
    \A i \in 1..Len(PostRuns) :
      IF KnownBefore /\ i <= Len(PreRuns)
      THEN \/ PostRuns[i].run_state = PreRuns[i].run_state
           \/ <<PreRuns[i].run_state, PostRuns[i].run_state>> \in LegalEdges
      ELSE PostRuns[i].run_state = "WAITING"

----------------------------------------------------------------------------
(* C3 *)

\* update_task_state gets the caller's update and a current run whose
\* sequence is greater than zero and not below the update's
StaleSequence ==
  /\ ProcessCall
  /\ KnownBefore
  /\ PreTail.run_state \notin Terminal
  /\ PreTail.seq > 0
  /\ Upd.seq # None
  /\ Upd.seq <= PreTail.seq

\* C3: when the current run's sequence is greater than zero and the update's
\* sequence is less than or equal to it, the call returns False in recovery
\* mode and raises InvalidSequenceNumber otherwise, whatever the run states
\* and fields of the update; either way nothing changes and no handler is
\* dispatched to.
C3_SequencePolicy ==
  StaleSequence =>
    /\ last.ret = (IF last.recovery THEN "False" ELSE "InvalidSequenceNumber")
    /\ state = last.pre
    /\ last.dispatch = <<>>

\* a duplicate of the current run state with the current sequence number,
\* replayed in recovery mode, was reported as not applied
C3_Witness ==
  /\ StaleSequence
  /\ last.recovery
  /\ Upd.run_state = PreTail.run_state
  /\ Upd.seq = PreTail.seq
  /\ last.ret = "False"

----------------------------------------------------------------------------
(* C4 *)

\* the state from_file has folded after the first k records of a log it
\* accepts
RECURSIVE StateAfter(_, _)
StateAfter(records, k) ==
  IF k = 0 THEN TaskRunnerState
  ELSE read_record(StateAfter(records, k - 1), records[k]).state

\* record i of the log is a process_state that was applied: the call returned
\* True and the tail run took the record's run state and sequence
AppliedRunState(records, i) ==
  /\ records[i].kind = "process_state"
  /\ LET u == records[i].process_state
         r == update_runner_state(StateAfter(records, i - 1), records[i], FALSE)
     IN  /\ r.ret = "True"
         /\ TailRun(r.state, u.process).run_state = u.run_state
         /\ TailRun(r.state, u.process).seq = u.seq

\* the log with record c inserted after position k
InsertAfter(records, k, c) ==
  SubSeq(records, 1, k) \o <<c>> \o SubSeq(records, k + 1, Len(records))

\* C4: when from_file has replayed a log to a state, the log with a duplicate
\* of an applied process_state record inserted anywhere after the record,
\* where the process's current sequence is not below the record's, replays to
\* the same state.
C4_ReplayToleratesDuplicates ==
  (rpc = "done" /\ rret = "state") =>
    \A i \in 1..Len(log) : \A k \in i..Len(log) :
      (/\ AppliedRunState(log, i)
       /\ log[i].process_state.seq
            <= TailRun(StateAfter(log, k), log[i].process_state.process).seq)
      => from_file(InsertAfter(log, k, log[i])) = [ret |-> "state", state |-> state]

----------------------------------------------------------------------------
(* C5 *)

\* C5: from_file ends by returning the folded state or by returning None,
\* and it returns None whenever update_runner_state did not accept a record.
C5_ReplayAllOrNothing ==
  rpc = "done" =>
    IF Called /\ last.ret \notin {"True", "False"}
    THEN rret = "None"
    ELSE rret = "state"

----------------------------------------------------------------------------
(* C6 *)

\* a terminal update for a known process whose tail run is terminal
TerminalAfterTerminal ==
  /\ ProcessCall
  /\ KnownBefore
  /\ PreTail.run_state \in Terminal
  /\ Upd.run_state \in Terminal

\* C6: a terminal run state for a process whose tail run is terminal raises
\* ErrorRecoveringState in both recovery modes and for every sequence number
\* of the record (a missing one too), and no run is appended or changed.
C6_TwoConsecutiveTerminalStates ==
  TerminalAfterTerminal =>
    /\ last.ret = "ErrorRecoveringState"
    /\ state = last.pre

\* in recovery mode, with a sequence number above the tail run's
C6_Witness ==
  /\ TerminalAfterTerminal
  /\ last.recovery
  /\ Upd.seq > PreTail.seq
  /\ last.ret = "ErrorRecoveringState"

----------------------------------------------------------------------------
(* C7 *)

\* a nonterminal update for a known process whose tail run is terminal
NonterminalAfterTerminal ==
  /\ ProcessCall
  /\ KnownBefore
  /\ PreTail.run_state \in Terminal
  /\ Upd.run_state \notin Terminal

\* C7: a nonterminal process_state for a process whose tail run is terminal
\* with sequence s is reported applied and appends exactly one run: the
\* earlier runs and the rest of the state stay as they were, the new tail run
\* is a WAITING run of sequence s + 1 with no other field set, and the
\* WAITING update forged for it is what is dispatched.
C7_FreshRunAfterTerminal ==
  NonterminalAfterTerminal =>
    LET fresh == ProcessState(PreTail.seq + 1, Proc, "WAITING")
    IN  /\ last.ret = "True"
        /\ Len(PostRuns) = Len(PreRuns) + 1
        /\ SubSeq(PostRuns, 1, Len(PreRuns)) = PreRuns
        /\ Last(PostRuns) = fresh
        /\ state = [last.pre EXCEPT !.processes[Proc].runs = Append(PreRuns, fresh)]
        /\ last.dispatch = <<[run_state |-> "WAITING", update |-> fresh]>>

\* the record that started the new run was a FORKED one
C7_Witness ==
  /\ NonterminalAfterTerminal
  /\ Upd.run_state = "FORKED"
  /\ Len(PostRuns) = 2

----------------------------------------------------------------------------
(* C8 *)

\* the update carries a sequence, a run state of the enum and every field
\* its run state requires
WellFormed(u) ==
  /\ u.seq # None
  /\ u.run_state \in RunStates
  /\ \A f \in SpecificFields(u.run_state) : u[f] # None

\* C8: a process_state for a process the state does not know creates a
\* history in state ACTIVE with one run, and when the call reports True that
\* run has the run state and the sequence of the supplied update (a FORKED
\* update with its required fields leaves the run FORKED).
C8_UnseenProcessTakesUpdate ==
  (ProcessCall /\ ~KnownBefore /\ WellFormed(Upd) /\ last.ret = "True") =>
    /\ state.processes[Proc].state = "ACTIVE"
    /\ Len(PostRuns) = 1
    /\ PostRuns[1].run_state = Upd.run_state
    /\ PostRuns[1].seq = Upd.seq

----------------------------------------------------------------------------
(* C9 *)

\* the update asks for a legal edge from the tail run's run state and lacks
\* a transition-specific required field
LegalEdgeMissingField ==
  /\ ProcessCall
  /\ KnownBefore
  /\ <<PreTail.run_state, Upd.run_state>> \in LegalEdges
  /\ \E f \in SpecificFields(Upd.run_state) : Upd[f] = None

\* the update passes the sequence policy
PassesSequencePolicy ==
  /\ Upd.seq # None
  /\ PreTail.seq > 0 => Upd.seq > PreTail.seq

\* C9 as stated: every update that asks for a legal edge and lacks a required
\* field raises ErrorRecoveringState, copies nothing and dispatches nothing.
C9_MissingFieldRejected_Original ==
  LegalEdgeMissingField =>
    /\ last.ret = "ErrorRecoveringState"
    /\ state = last.pre
    /\ last.dispatch = <<>>

\* C9 (amended): an update that asks for a legal edge, lacks a
\* transition-specific required field and passes the sequence policy (its
\* sequence is present and, when the current run's sequence is greater than
\* zero, greater than it) raises ErrorRecoveringState; none of its fields is
\* copied onto the run, sequence and run state included, and no handler is
\* dispatched to.
C9_MissingFieldRejected ==
  (LegalEdgeMissingField /\ PassesSequencePolicy) =>
    /\ last.ret = "ErrorRecoveringState"
    /\ state = last.pre
    /\ last.dispatch = <<>>

\* a RUNNING update with a start time and no pid, on a FORKED run
C9_Witness ==
  /\ LegalEdgeMissingField
  /\ PassesSequencePolicy
  /\ Upd.run_state = "RUNNING"
  /\ Upd.start_time # None
  /\ Upd.pid = None
  /\ last.ret = "ErrorRecoveringState"

----------------------------------------------------------------------------
(* C10 *)

\* C10: a state-specific field that is set on a run keeps its value through
\* every later call.
C10_FieldsWriteOnce ==
  (ProcessCall /\ KnownBefore) =>
    \A i \in 1..Len(PreRuns) : \A f \in StateFields :
      PreRuns[i][f] # None => PostRuns[i][f] = PreRuns[i][f]

----------------------------------------------------------------------------
(* C11 *)

\* every run but the last of every run list is in a terminal run state
NonTailRunsTerminal ==
  \A p \in DOMAIN state.processes :
    \A i \in 1..(Len(state.processes[p].runs) - 1) :
      state.processes[p].runs[i].run_state \in Terminal

\* the call made the run list of a known process longer
RunAppended == ProcessCall /\ KnownBefore /\ Len(PostRuns) > Len(PreRuns)

\* C11: in every reachable TaskRunnerState every run except the last one of
\* a run list is in a terminal run state, and a run is appended to a
\* non-empty run list only by a call before which the tail run was terminal.
C11_OneOpenRunAtTheTail ==
  /\ NonTailRunsTerminal
  /\ RunAppended => PreTail.run_state \in Terminal

\* a second run was appended after a LOST one, and it is the open run
C11_Witness ==
  /\ RunAppended
  /\ Len(PostRuns) = 2
  /\ PostRuns[1].run_state = "LOST"
  /\ PostRuns[2].run_state \notin Terminal

----------------------------------------------------------------------------
(* C12 *)

PortCall == Called /\ last.ckpt.kind = "allocated_port"

\* every port handler called once, in the order registered, with (name, port)
PortHandlersCalled(name, port) ==
  /\ Len(last.invoked) = Len(self.port_handlers)
  /\ \A i \in 1..Len(self.port_handlers) :
       last.invoked[i] = [handler |-> self.port_handlers[i], args |-> <<name, port>>]

\* C12: the first allocated_port record of a name binds it, returns True and
\* calls every port handler once with (name, port); a later record with the
\* same name and port returns False and calls no handler; one with another
\* port raises ErrorRecoveringState.  No call changes or removes the port
\* bound to a name, and port handlers are called only by the call that binds
\* a name.
C12_PortsWriteOnce ==
  /\ PortCall =>
       LET name == last.ckpt.port_name
           port == last.ckpt.port
       IN  IF name \notin DOMAIN last.pre.ports
           THEN /\ last.ret = "True"
                /\ DOMAIN state.ports = DOMAIN last.pre.ports \cup {name}
                /\ state.ports[name] = port
                /\ PortHandlersCalled(name, port)
           ELSE /\ last.ret = (IF last.pre.ports[name] = port
                               THEN "False" ELSE "ErrorRecoveringState")
                /\ state = last.pre
                /\ last.invoked = <<>>
  /\ Called =>
       \A name \in DOMAIN last.pre.ports :
         name \in DOMAIN state.ports /\ state.ports[name] = last.pre.ports[name]
  /\ (Called /\ ~PortCall) =>
       \A i \in 1..Len(last.invoked) :
         \A j \in 1..Len(self.port_handlers) :
           last.invoked[i].handler # self.port_handlers[j]

\* with two port handlers registered, a bound name came again with its port
C12_Witness ==
  /\ PortCall
  /\ Len(self.port_handlers) = 2
  /\ last.ckpt.port_name \in DOMAIN last.pre.ports
  /\ last.pre.ports[last.ckpt.port_name] = last.ckpt.port
  /\ last.ret = "False"

----------------------------------------------------------------------------
(* C13 *)

HeaderCall == Called /\ last.ckpt.kind = "runner_header"

\* C13: the first runner_header record sets state.header and returns True;
\* every later one, one equal to the stored header too, raises
\* ErrorRecoveringState; no call of any kind changes a header that is set.
C13_HeaderImmutable ==
  /\ HeaderCall =>
       IF last.pre.header = NoneStr
       THEN /\ last.ret = "True"
            /\ state = [last.pre EXCEPT !.header = last.ckpt.runner_header]
       ELSE /\ last.ret = "ErrorRecoveringState"
            /\ state = last.pre
  /\ (Called /\ last.pre.header # NoneStr) => state.header = last.pre.header

\* the stored header came again
C13_Witness ==
  /\ HeaderCall
  /\ last.pre.header = last.ckpt.runner_header
  /\ last.ret = "ErrorRecoveringState"

----------------------------------------------------------------------------
(* C14 *)

\* the call returned True and the process has a new run or its tail run
\* another run state than before
TransitionApplied ==
  /\ ProcessCall
  /\ last.ret = "True"
  /\ \/ ~KnownBefore
     \/ Len(PostRuns) > Len(PreRuns)
     \/ Last(PostRuns).run_state # PreTail.run_state

\* the handlers registered for a run state, in the order registered
HandlersOf(run_state) ==
  IF run_state \in DOMAIN self.state_handlers
  THEN self.state_handlers[run_state] ELSE <<>>

\* the universal handlers and then the handlers of run_state were called,
\* each once and in the order registered, with an update of that run state
CalledInOrder(run_state) ==
  LET expected == self.universal_handlers \o HandlersOf(run_state)
  IN  /\ Len(last.invoked) = Len(expected)
      /\ \A i \in 1..Len(expected) :
           /\ last.invoked[i].handler = expected[i]
           /\ last.invoked[i].args[1].run_state = run_state

\* C14: a call on a process_state record that applies a transition to run
\* state R calls every universal handler and then every handler registered
\* for R, each once and in the order registered, and no other handler; a
\* call that applies no transition (rejected, or not applied) calls none.
C14_HandlersFollowTransitions ==
  ProcessCall =>
    IF TransitionApplied
    THEN CalledInOrder(Last(PostRuns).run_state)
    ELSE last.invoked = <<>>

----------------------------------------------------------------------------
(* C15 *)

WouldCall == last.op = "would_update"

\* the record is for an unseen process or its sequence is above the tail
\* run's
UnseenOrAhead ==
  \/ ~KnownBefore
  \/ Upd.seq # None /\ Upd.seq > PreTail.seq

\* C15: would_update changes nothing and calls no handler; for a
\* process_state record it returns True exactly when the process is unseen
\* or the record's sequence is above the tail run's; and when it returns
\* True, update_runner_state on the same record and state returns True.
C15_WouldUpdatePredictsUpdate ==
  WouldCall =>
    /\ state = last.pre
    /\ last.invoked = <<>>
    /\ last.ckpt.kind = "process_state" =>
         /\ last.ret = "True" <=> UnseenOrAhead
         /\ last.ret = "True" =>
              \A recovery \in BOOLEAN :
                update_runner_state(state, last.ckpt, recovery).ret = "True"

----------------------------------------------------------------------------
(* C16 *)

\* C16: a call that returns False left the TaskRunnerState as it was and
\* dispatched to no handler, whichever record it was given.
C16_NotAppliedChangesNothing ==
  (Called /\ last.ret = "False") =>
    /\ state = last.pre
    /\ last.dispatch = <<>>
    /\ last.port_dispatch = <<>>
    /\ last.invoked = <<>>

\* a history_state_update with the state the process history is in
C16_Witness ==
  /\ Called
  /\ last.ckpt.kind = "history_state_update"
  /\ last.ckpt.process \in DOMAIN last.pre.processes
  /\ last.pre.processes[last.ckpt.process].state = last.ckpt.state
  /\ last.ret = "False"

----------------------------------------------------------------------------
(* C17 *)

\* C17: a process_state record that is reported applied gave the process a
\* new run or changed the run state of its tail run; hence a record that
\* leaves the run state as it is (it has the run state of the current run,
\* or none) is not reported applied.
C17_AppliedChangesRunState ==
  (ProcessCall /\ last.ret = "True") =>
    \/ ~KnownBefore
    \/ Len(PostRuns) > Len(PreRuns)
    \/ Last(PostRuns).run_state # PreTail.run_state

----------------------------------------------------------------------------
(* C18 *)

\* C18: a process_state record without a sequence number raises
\* InvalidSequenceNumber and changes nothing, whatever the state and the
\* recovery mode.
C18_AbsentSequenceRejected ==
  (ProcessCall /\ Upd.seq = None) =>
    /\ last.ret = "InvalidSequenceNumber"
    /\ state = last.pre

----------------------------------------------------------------------------
(* C19 *)

\* C19: no call removes a process, shortens a run list or changes a run that
\* was terminal or was not the tail of its list before the call.
C19_StateMovesForward ==
  Called =>
    \A p \in DOMAIN last.pre.processes :
      /\ p \in DOMAIN state.processes
      /\ LET pre == last.pre.processes[p].runs
             post == state.processes[p].runs
         IN  /\ Len(post) >= Len(pre)
             /\ \A i \in 1..Len(pre) :
                  (i < Len(pre) \/ pre[i].run_state \in Terminal) => post[i] = pre[i]

\* a call that was applied to a process whose tail run was FINISHED, with
\* its stop time and return code
C19_Witness ==
  /\ ProcessCall
  /\ KnownBefore
  /\ PreTail.run_state = "FINISHED"
  /\ PreTail.stop_time # None
  /\ PreTail.return_code # None
  /\ last.ret = "True"
  /\ Len(PostRuns) = Len(PreRuns) + 1

----------------------------------------------------------------------------
(* C20 *)

\* C20: in every reachable TaskRunnerState the sequence numbers of the runs
\* of a process increase strictly along the run list, and no call lowers
\* the sequence number of the tail run.
C20_SequencesIncrease ==
  /\ \A p \in DOMAIN state.processes :
       LET runs == state.processes[p].runs
       IN  \A i \in 1..Len(runs) : \A j \in 1..Len(runs) :
             i < j => runs[i].seq < runs[j].seq
  /\ (ProcessCall /\ KnownBefore) => Last(PostRuns).seq >= PreTail.seq

\* the second run of a process was moved on to a higher sequence number
C20_Witness ==
  /\ ProcessCall
  /\ KnownBefore
  /\ Len(PreRuns) = 2
  /\ Len(PostRuns) = 2
  /\ PostRuns[2].seq > PreRuns[2].seq
  /\ PreRuns[2].seq > PreRuns[1].seq

====
